---- MODULE Spec2Model ----
(***************************************************************************)
(* Lead Management application: the LeadManager (src/lead_manager.py), its  *)
(* persistence gateway LeadDatabase (src/database.py) and the accessor the  *)
(* pages use to read a semantic field of a row (src/app.py).                *)
(*                                                                         *)
(* A DataFrame is a record [loaded, cols, rows]: `loaded` is FALSE for the  *)
(* Python value None, `cols` is the set of column labels and `rows` is the  *)
(* sequence of rows, each [id |-> index label, c |-> [cols -> cell]].       *)
(* A cell is a record [k, s, n]: k is its kind ("null" for None/NaN, "str" *)
(* for a Python str whose text is the token sequence s, "ts" for a          *)
(* pandas.Timestamp at clock tick n, "bool" for a bool with n = 1 / 0).     *)
(* Time is counted in ticks, TicksPerDay ticks to a calendar day.          *)
(***************************************************************************)
EXTENDS Integers, Sequences, FiniteSets, TLC

VARIABLES leads_df, column_mapping, original_columns, db, audit, now, dbOk,
          last, steps, rq

vars == <<leads_df, column_mapping, original_columns, db, audit, now, dbOk,
          last, steps, rq>>

(* ------------------------------ bounds --------------------------------- *)
MaxRows == 2
MaxId == 2
MaxSteps == 4
MaxDate == 4
TicksPerDay == 2
StartNow == 2
MaxDaysAhead == 1

(* ------------------------------ cells ---------------------------------- *)
Null == [k |-> "null", s |-> <<>>, n |-> 0]
Str(toks) == [k |-> "str", s |-> toks, n |-> 0]
Ts(t) == [k |-> "ts", s |-> <<>>, n |-> t]
Bool(b) == [k |-> "bool", s |-> <<>>, n |-> IF b THEN 1 ELSE 0]

isna(v) == v.k = "null"

normalize(t) == t - (t % TicksPerDay)

\* strftime('%Y-%m-%d') of the clock
DayText(t) == "d" \o ToString(t \div TicksPerDay)
\* strftime('%Y-%m-%d %H:%M') of the clock
MinuteText(t) == DayText(t) \o " " \o ToString(t % TicksPerDay)
\* the ISO text to_json(date_format='iso') writes for a Timestamp
IsoText(t) == DayText(t) \o "T" \o ToString(t % TicksPerDay)
\* str(Timestamp)
TsText(t) == DayText(t) \o " " \o ToString(t % TicksPerDay) \o ":00"

\* str(value), as update_lead_field stores old and new values
\* (None and NaN are the one Null cell; its text is rendered as "None")
PyStr(v) ==
    CASE v.k = "null" -> <<"None">>
      [] v.k = "str"  -> v.s
      [] v.k = "ts"   -> <<TsText(v.n)>>
      [] v.k = "bool" -> IF v.n = 1 THEN <<"True">> ELSE <<"False">>

\* pd.to_datetime(value, errors='coerce'): the tick, or -1 for NaT
to_datetime(v) ==
    CASE v.k = "ts" -> v.n
      [] v.k = "str" ->
           IF \E t \in 0..(MaxDate + TicksPerDay) : v.s = <<IsoText(t)>>
           THEN CHOOSE t \in 0..(MaxDate + TicksPerDay) : v.s = <<IsoText(t)>>
           ELSE -1
      [] OTHER -> -1

(* ---------------------------- DataFrames ------------------------------- *)
NoDF == [loaded |-> FALSE, cols |-> {}, rows |-> <<>>]

Index(df) == {df.rows[i].id : i \in DOMAIN df.rows}

Pos(df, id) == CHOOSE i \in DOMAIN df.rows : df.rows[i].id = id

\* df.loc[id, col] for a label that is in the index
Loc(df, id, col) == df.rows[Pos(df, id)].c[col]

\* df[col] = v : a new column holding v in every row (or the column overwritten)
SetColumn(df, col, v) ==
    [loaded |-> df.loaded,
     cols   |-> df.cols \cup {col},
     rows   |-> [i \in DOMAIN df.rows |->
                   [id |-> df.rows[i].id,
                    c  |-> [x \in df.cols \cup {col} |->
                              IF x = col THEN v ELSE df.rows[i].c[x]]]]]

\* df[dst] = df[src] : a column copied
CopyColumn(df, dst, src) ==
    [loaded |-> df.loaded,
     cols   |-> df.cols \cup {dst},
     rows   |-> [i \in DOMAIN df.rows |->
                   [id |-> df.rows[i].id,
                    c  |-> [x \in df.cols \cup {dst} |->
                              IF x = dst THEN df.rows[i].c[src]
                              ELSE df.rows[i].c[x]]]]]

\* df.loc[id, col] = v : the cell is written; a label that is not in the
\* index enlarges the frame by a row whose other cells are NaN
SetLoc(df, id, col, v) ==
    IF id \in Index(df)
    THEN [df EXCEPT !.rows[Pos(df, id)].c[col] = v]
    ELSE [df EXCEPT !.rows = Append(@,
             [id |-> id, c |-> [x \in df.cols |-> IF x = col THEN v ELSE Null]])]

(* ------------------------- schema mapping ------------------------------ *)
SemNames == {"status", "notes"}

NoMapping == [k \in SemNames |-> ""]

\* column_mapping.get(name, default)
MapGet(m, name, default) ==
    IF name \in DOMAIN m /\ m[name] # "" THEN m[name] ELSE default

(* --------------------- persistence gateway ----------------------------- *)
\* df.to_json(orient='records', date_format='iso') of one cell
JsonCell(v) == IF v.k = "ts" THEN Str(<<IsoText(v.n)>>) ELSE v

\* df.to_json(orient='records', date_format='iso'): the index is not written
to_json(df) ==
    [cols |-> df.cols,
     rows |-> [i \in DOMAIN df.rows |->
                 [x \in df.cols |-> JsonCell(df.rows[i].c[x])]]]

\* pd.read_json(data_json, orient='records'): a fresh 0..n-1 index
read_json(j) ==
    [loaded |-> TRUE,
     cols   |-> j.cols,
     rows   |-> [i \in DOMAIN j.rows |-> [id |-> i - 1, c |-> j.rows[i]]]]

NoJson == [cols |-> {}, rows |-> <<>>]

EmptyDb == [stored |-> FALSE, data_json |-> NoJson,
            column_mapping_json |-> NoMapping, original_columns_json |-> <<>>]

\* LeadDatabase.save_leads_data: DELETE FROM leads, then one INSERT
save_leads_data(df, cm, oc) ==
    [stored |-> TRUE, data_json |-> to_json(df),
     column_mapping_json |-> cm, original_columns_json |-> oc]

has_data(df) == df.loaded /\ Len(df.rows) > 0

\* a variant of save_to_database that never reaches the gateway
save_to_database_skipped(dbv, df, cm, oc, ok) == dbv

\* LeadManager.save_to_database: the gateway's new content; ok is FALSE when
\* the sqlite call fails (the exception is caught and printed)
save_to_database(dbv, df, cm, oc, ok) ==
    IF has_data(df) /\ ok THEN save_leads_data(df, cm, oc) ELSE dbv

\* a variant of update_lead_field that keeps the newest entry only
update_lead_field_newest_only(log, id, field, old, new, ok) ==
    IF ok
    THEN <<[lead_row_id |-> id, field_name |-> field,
            old_value |-> PyStr(old), new_value |-> PyStr(new)]>>
    ELSE log

\* LeadDatabase.update_lead_field: the audit log after the INSERT
update_lead_field(log, id, field, old, new, ok) ==
    IF ok
    THEN Append(log, [lead_row_id |-> id, field_name |-> field,
                      old_value |-> PyStr(old), new_value |-> PyStr(new)])
    ELSE log

(* ------------------------------ import --------------------------------- *)
NullTokens == {<<"nan">>, <<"None">>, <<"NULL">>, <<"null">>, <<"<NA>">>, <<>>}

\* the uploaded sheet as pd.read_excel returns it: n rows over three text
\* columns, an empty Remarks cell (NaN) in every second row
RawColumns == <<"Name", "Stage", "Remarks">>

RawCell(i, col) ==
    CASE col = "Name"    -> Str(<<"lead" \o ToString(i)>>)
      [] col = "Stage"   -> IF i % 2 = 0 THEN Str(<<"new">>) ELSE Str(<<"qualified">>)
      [] col = "Remarks" -> IF i % 2 = 0 THEN Str(<<"met">>) ELSE Null

RawFile(n) ==
    [loaded |-> TRUE,
     cols   |-> {RawColumns[j] : j \in DOMAIN RawColumns},
     rows   |-> [i \in 1..n |->
                   [id |-> i - 1,
                    c  |-> [x \in {RawColumns[j] : j \in DOMAIN RawColumns} |->
                              RawCell(i - 1, x)]]]]

\* the mappings the upload form can produce: each semantic field unmapped ("")
\* or bound to one of the sheet's columns
FormMappings ==
    {m \in [SemNames -> {"", "Stage", "Remarks"}] :
        /\ m["status"] \in {"", "Stage"}
        /\ m["notes"] \in {"", "Remarks"}}

\* astype(str), then the null tokens replaced by None
CleanCell(v) ==
    LET t == IF v.k = "null" THEN <<"nan">> ELSE PyStr(v)
    IN  IF t \in NullTokens THEN Null ELSE Str(t)

clean_data_types(df) ==
    [df EXCEPT !.rows = [i \in DOMAIN df.rows |->
        [df.rows[i] EXCEPT !.c = [x \in df.cols |-> CleanCell(df.rows[i].c[x])]]]]

\* the four management columns, each added only when absent
AddIfAbsent(df, col, v) == IF col \in df.cols THEN df ELSE SetColumn(df, col, v)

add_management_columns(df) ==
    AddIfAbsent(AddIfAbsent(AddIfAbsent(AddIfAbsent(df,
        "priority", Str(<<"Medium">>)),
        "follow_up_date", Null),
        "last_contact", Null),
        "follow_up_completed", Bool(FALSE))

SemSeq == <<"status", "notes">>

RECURSIVE StandardizeFrom(_, _, _)
StandardizeFrom(df, cm, j) ==
    IF j > Len(SemSeq) THEN df
    ELSE LET std == SemSeq[j]
             mapped == cm[std]
         IN  StandardizeFrom(
                IF mapped # "" /\ mapped \in df.cols /\ std \notin df.cols
                THEN CopyColumn(df, std, mapped) ELSE df,
                cm, j + 1)

standardize_columns(df, cm) == StandardizeFrom(df, cm, 1)

\* the table load_data leaves in memory
normalized(raw, cm) ==
    standardize_columns(add_management_columns(clean_data_types(raw)), cm)

(* ------------------------------ state ---------------------------------- *)
\* the record of the last call: operation, arguments, the frame and the audit
\* length it found, whether it raised, whether the gateway worked, and the
\* operation and record of the call before it
NoCall == [op |-> "none", id |-> -1, arg |-> Null, pre |-> NoDF,
           preAudit |-> 0, raised |-> FALSE, gw |-> TRUE,
           prevOp |-> "none", prevId |-> -1]

NoQuery == [phase |-> "off"]

Init ==
    /\ leads_df = NoDF
    /\ column_mapping = NoMapping
    /\ original_columns = <<>>
    /\ db = EmptyDb
    /\ audit = <<>>
    /\ now = StartNow
    /\ dbOk = TRUE
    /\ last = NoCall
    /\ steps = 0
    /\ rq = NoQuery

Called(op, id, arg, raised) ==
    [op |-> op, id |-> id, arg |-> arg, pre |-> leads_df,
     preAudit |-> Len(audit), raised |-> raised, gw |-> dbOk,
     prevOp |-> last.op, prevId |-> last.id]

\* LeadManager.load_data on the uploaded sheet and the form's mapping
load_data(n, m) ==
    /\ steps < MaxSteps
    /\ LET raw == RawFile(n)
           df  == normalized(raw, m)
       IN  /\ leads_df' = df
           /\ column_mapping' = m
           /\ original_columns' = RawColumns
           /\ db' = save_to_database(db, df, m, RawColumns, dbOk)
    /\ last' = Called("load_data", -1, Null, FALSE)
    /\ steps' = steps + 1
    /\ UNCHANGED <<audit, now, dbOk, rq>>

\* LeadManager.load_from_database ("Reload Data from Database")
load_from_database ==
    /\ steps < MaxSteps
    /\ IF dbOk /\ db.stored
       THEN /\ leads_df' = read_json(db.data_json)
            /\ column_mapping' = db.column_mapping_json
            /\ original_columns' = db.original_columns_json
       ELSE UNCHANGED <<leads_df, column_mapping, original_columns>>
    /\ last' = Called("load_from_database", -1, Null, FALSE)
    /\ steps' = steps + 1
    /\ UNCHANGED <<db, audit, now, dbOk, rq>>

\* the wall clock advances
Tick ==
    /\ steps < MaxSteps
    /\ now' = now + 1
    /\ last' = Called("tick", -1, Null, FALSE)
    /\ steps' = steps + 1
    /\ UNCHANGED <<leads_df, column_mapping, original_columns, db, audit, dbOk, rq>>

\* the sqlite file becomes unusable / usable again
GatewayToggle ==
    /\ steps < MaxSteps
    /\ dbOk' = ~dbOk
    /\ last' = Called("gateway", -1, Null, FALSE)
    /\ steps' = steps + 1
    /\ UNCHANGED <<leads_df, column_mapping, original_columns, db, audit, now, rq>>

(* ----------------------------- mutations ------------------------------ *)
Ids == 0..MaxId
StatusInputs == {"contacted", "closed won"}
PriorityInputs == {"High", "Low", "Urgent"}
DateInputs == 0..MaxDate
NoteInputs == {<<" ">>, <<"call">>, <<"mail">>}

\* note.strip(): leading and trailing blanks removed
RECURSIVE lstrip(_)
lstrip(t) == IF t # <<>> /\ Head(t) = " " THEN lstrip(Tail(t)) ELSE t
RECURSIVE rstrip(_)
rstrip(t) ==
    IF t # <<>> /\ t[Len(t)] = " " THEN rstrip(SubSeq(t, 1, Len(t) - 1)) ELSE t
strip(t) == rstrip(lstrip(t))

\* the frame after the "create the column if it is not there" step, and the
\* column a mutation of semantic field `name` then reads and writes
WithColumn(df, cm, name, fill) ==
    IF MapGet(cm, name, name) \notin df.cols THEN SetColumn(df, name, fill) ELSE df

WrittenColumn(df, cm, name) ==
    IF MapGet(cm, name, name) \notin df.cols THEN name ELSE MapGet(cm, name, name)

\* df.loc[id, col] if id in df.index else None
OldValue(df, id, col) == IF id \in Index(df) THEN Loc(df, id, col) ELSE Null

\* a variant of update_lead_status that also reopens the follow-up
update_lead_status_reopening(df, cm, id, s, t) ==
    LET col == WrittenColumn(df, cm, "status")
        df0 == WithColumn(df, cm, "status", Null)
    IN  SetLoc(SetLoc(SetLoc(df0, id, col, Str(<<s>>)),
                      id, "last_contact", Str(<<DayText(t)>>)),
               id, "follow_up_completed", Bool(FALSE))

\* update_lead_status: the frame after lines 261-271
update_lead_status_df(df, cm, id, s, t) ==
    LET col == WrittenColumn(df, cm, "status")
        df0 == WithColumn(df, cm, "status", Null)
    IN  SetLoc(SetLoc(df0, id, col, Str(<<s>>)),
               id, "last_contact", Str(<<DayText(t)>>))

\* update_lead_priority: the frame after line 285
update_lead_priority_df(df, id, p) == SetLoc(df, id, "priority", Str(<<p>>))

\* a variant of schedule_followup that writes the date only
schedule_followup_date_only(df, id, d) == SetLoc(df, id, "follow_up_date", Ts(d))

\* schedule_followup: the frame after lines 304-305
schedule_followup_df(df, id, d) ==
    SetLoc(SetLoc(df, id, "follow_up_date", Ts(d)),
           id, "follow_up_completed", Bool(FALSE))

\* a variant of complete_followup that writes last_contact only
complete_followup_contact_only(df, id, t) ==
    SetLoc(df, id, "last_contact", Str(<<DayText(t)>>))

\* complete_followup: the frame after lines 421-422
complete_followup_df(df, id, t) ==
    SetLoc(SetLoc(df, id, "follow_up_completed", Bool(TRUE)),
           id, "last_contact", Str(<<DayText(t)>>))

\* add_note: the text written (lines 321-324)
new_note(current, note, t) ==
    IF isna(current) \/ current = Str(<<>>)
    THEN Str(<<"[" \o MinuteText(t) \o "] ">> \o note)
    ELSE Str(PyStr(current) \o <<"\n", "[" \o MinuteText(t) \o "] ">> \o note)

\* a variant of the shared part that undoes the write when the gateway fails
Mutate_rolled_back(op, id, arg, field, old, new, df) ==
    /\ audit' = update_lead_field(audit, id, field, old, new, dbOk)
    /\ leads_df' = IF dbOk THEN df ELSE leads_df
    /\ db' = save_to_database(db, df, column_mapping, original_columns, dbOk)
    /\ last' = Called(op, id, arg, FALSE)

\* the part every mutation shares: the audit INSERT, the frame written, the
\* full save, and the record of the call
Mutate(op, id, arg, field, old, new, df) ==
    /\ audit' = update_lead_field(audit, id, field, old, new, dbOk)
    /\ leads_df' = df
    /\ db' = save_to_database(db, df, column_mapping, original_columns, dbOk)
    /\ last' = Called(op, id, arg, FALSE)

NoOp(op, id, arg) ==
    /\ last' = Called(op, id, arg, FALSE)
    /\ UNCHANGED <<leads_df, audit, db>>

update_lead_status(id, s) ==
    /\ steps < MaxSteps
    /\ IF ~has_data(leads_df) THEN NoOp("update_lead_status", id, Str(<<s>>))
       ELSE Mutate("update_lead_status", id, Str(<<s>>), "status",
                   OldValue(WithColumn(leads_df, column_mapping, "status", Null), id,
                            WrittenColumn(leads_df, column_mapping, "status")),
                   Str(<<s>>),
                   update_lead_status_df(leads_df, column_mapping, id, s, now))
    /\ steps' = steps + 1
    /\ UNCHANGED <<column_mapping, original_columns, now, dbOk, rq>>

update_lead_priority(id, p) ==
    /\ steps < MaxSteps
    /\ IF ~has_data(leads_df) THEN NoOp("update_lead_priority", id, Str(<<p>>))
       ELSE Mutate("update_lead_priority", id, Str(<<p>>), "priority",
                   OldValue(leads_df, id, "priority"), Str(<<p>>),
                   update_lead_priority_df(leads_df, id, p))
    /\ steps' = steps + 1
    /\ UNCHANGED <<column_mapping, original_columns, now, dbOk, rq>>

schedule_followup(id, d) ==
    /\ steps < MaxSteps
    /\ IF ~has_data(leads_df) THEN NoOp("schedule_followup", id, Ts(d))
       ELSE Mutate("schedule_followup", id, Ts(d), "follow_up_date",
                   OldValue(leads_df, id, "follow_up_date"), Ts(d),
                   schedule_followup_df(leads_df, id, d))
    /\ steps' = steps + 1
    /\ UNCHANGED <<column_mapping, original_columns, now, dbOk, rq>>

complete_followup(id) ==
    /\ steps < MaxSteps
    /\ IF ~has_data(leads_df) THEN NoOp("complete_followup", id, Null)
       ELSE Mutate("complete_followup", id, Null, "follow_up_completed",
                   Bool(FALSE), Bool(TRUE),
                   complete_followup_df(leads_df, id, now))
    /\ steps' = steps + 1
    /\ UNCHANGED <<column_mapping, original_columns, now, dbOk, rq>>

add_note(id, note) ==
    /\ steps < MaxSteps
    /\ IF ~has_data(leads_df) \/ strip(note) = <<>>
       THEN NoOp("add_note", id, Str(note))
       ELSE LET col == WrittenColumn(leads_df, column_mapping, "notes")
                df0 == WithColumn(leads_df, column_mapping, "notes", Str(<<>>))
            IN  IF id \notin Index(df0)
                THEN \* df.loc[id, col] raises KeyError, after the column was added
                     /\ leads_df' = df0
                     /\ last' = Called("add_note", id, Str(note), TRUE)
                     /\ UNCHANGED <<audit, db>>
                ELSE Mutate("add_note", id, Str(note), "notes",
                            Loc(df0, id, col), new_note(Loc(df0, id, col), note, now),
                            SetLoc(df0, id, col, new_note(Loc(df0, id, col), note, now)))
    /\ steps' = steps + 1
    /\ UNCHANGED <<column_mapping, original_columns, now, dbOk, rq>>

(* ------------------------------- views --------------------------------- *)
\* pd.Timestamp.now().normalize()
Today == normalize(now)

\* the two conditions every time-windowed mask starts with:
\* follow_up_date.notna() & (follow_up_completed == False)
OpenFollowup(row) ==
    /\ ~isna(row.c["follow_up_date"])
    /\ row.c["follow_up_completed"] = Bool(FALSE)

\* the converted date of a row; comparisons with NaT are False
FollowupTick(row) == to_datetime(row.c["follow_up_date"])

\* get_overdue_followups: the index labels of the rows returned
get_overdue_followups(df, t) ==
    IF ~has_data(df) THEN {}
    ELSE {df.rows[i].id : i \in {j \in DOMAIN df.rows :
            /\ OpenFollowup(df.rows[j])
            /\ FollowupTick(df.rows[j]) # -1
            /\ FollowupTick(df.rows[j]) < normalize(t)}}

\* a variant of get_upcoming_followups whose window starts after today
get_upcoming_followups_after_today(df, t, days_ahead) ==
    IF ~has_data(df) THEN {}
    ELSE {df.rows[i].id : i \in {j \in DOMAIN df.rows :
            /\ OpenFollowup(df.rows[j])
            /\ FollowupTick(df.rows[j]) # -1
            /\ FollowupTick(df.rows[j]) > normalize(t)
            /\ FollowupTick(df.rows[j]) <= normalize(t) + days_ahead * TicksPerDay}}

\* get_upcoming_followups(days_ahead): the index labels of the rows returned
get_upcoming_followups(df, t, days_ahead) ==
    IF ~has_data(df) THEN {}
    ELSE {df.rows[i].id : i \in {j \in DOMAIN df.rows :
            /\ OpenFollowup(df.rows[j])
            /\ FollowupTick(df.rows[j]) # -1
            /\ FollowupTick(df.rows[j]) >= normalize(t)
            /\ FollowupTick(df.rows[j]) <= normalize(t) + days_ahead * TicksPerDay}}

\* get_daily_tasks(date): the index labels of the rows returned
get_daily_tasks(df, date) ==
    IF ~has_data(df) THEN {}
    ELSE {df.rows[i].id : i \in {j \in DOMAIN df.rows :
            /\ OpenFollowup(df.rows[j])
            /\ FollowupTick(df.rows[j]) # -1
            /\ normalize(FollowupTick(df.rows[j])) = normalize(date)}}

(* ------------------------------ accessor ------------------------------- *)
\* Series.get(key, default)
Get(row, key, default) == IF key \in DOMAIN row THEN row[key] ELSE default

\* a variant of the accessor that looks at the mapped column first
Resolve_mapped_first(row, cm, name, default) ==
    Get(row, MapGet(cm, name, ""), Get(row, name, default))

\* lead.get(name, lead.get(column_mapping.get(name, ''), default))
Resolve(row, cm, name, default) ==
    Get(row, name, Get(row, MapGet(cm, name, ""), default))

\* one evaluation of the accessor on the query drawn at the start
ResolveCall ==
    /\ rq.phase = "in"
    /\ rq' = [rq EXCEPT !.phase = "out",
                        !.out = Resolve(rq.row, rq.cm, rq.name, rq.default)]
    /\ UNCHANGED <<leads_df, column_mapping, original_columns, db, audit, now,
                   dbOk, last, steps>>

\* the rows a query is drawn from: any subset of the alias and source columns
QueryColumns == {"status", "Stage", "notes", "Remarks"}
QueryRows ==
    UNION {[cs -> {Str(<<"new">>), Null}] : cs \in SUBSET QueryColumns}
QueryDefaults == {Str(<<"N/A">>), Str(<<"Unknown">>)}

InitResolve ==
    /\ leads_df = NoDF
    /\ column_mapping = NoMapping
    /\ original_columns = <<>>
    /\ db = EmptyDb
    /\ audit = <<>>
    /\ now = StartNow
    /\ dbOk = TRUE
    /\ last = NoCall
    /\ steps = 0
    /\ \E row \in QueryRows, cm \in FormMappings, name \in SemNames,
          d \in QueryDefaults :
          rq = [phase |-> "in", row |-> row, cm |-> cm, name |-> name,
                default |-> d, out |-> Null]

NextResolve == ResolveCall

SpecResolve == InitResolve /\ [][NextResolve]_vars

Next ==
    \/ \E n \in {0, MaxRows}, m \in FormMappings : load_data(n, m)
    \/ load_from_database
    \/ Tick
    \/ GatewayToggle
    \/ \E id \in Ids, s \in StatusInputs : update_lead_status(id, s)
    \/ \E id \in Ids, p \in PriorityInputs : update_lead_priority(id, p)
    \/ \E id \in Ids, d \in DateInputs : schedule_followup(id, d)
    \/ \E id \in Ids : complete_followup(id)
    \/ \E id \in Ids, note \in NoteInputs : add_note(id, note)

Spec == Init /\ [][Next]_vars
(* ======================= properties of the program ===================== *)
MutationOps == {"update_lead_status", "update_lead_priority", "schedule_followup",
                "add_note", "complete_followup"}

\* the last call was operation op on a record that was in the store
CalledOnPresent(op) ==
    last.op = op /\ has_data(last.pre) /\ last.id \in Index(last.pre)

\* the cells of record id
RowOf(df, id) == df.rows[Pos(df, id)].c

TodayText == Str(<<DayText(now)>>)

\* C1: update_lead_status(id, newStatus) on a record in the store, whatever
\* the mapping of `status`: afterwards the accessor (alias column first)
\* returns newStatus for that record, its last_contact is today, and exactly
\* one audit entry was appended, its old value being the prior status.
C1_UpdateStatusWritesAlias ==
    (CalledOnPresent("update_lead_status") /\ last.gw) =>
        /\ Resolve(RowOf(leads_df, last.id), column_mapping, "status", Null) = last.arg
        /\ RowOf(leads_df, last.id)["last_contact"] = TodayText
        /\ Len(audit) = last.preAudit + 1
        /\ audit[Len(audit)].field_name = "status"
        /\ audit[Len(audit)].old_value =
             PyStr(Resolve(RowOf(last.pre, last.id), column_mapping, "status", Null))

\* C2: a mutation whose record identifier is not in the store raises nothing
\* and leaves the records and every field of every record as they were.
C2_MissingIdIsNoOp ==
    (last.op \in MutationOps /\ last.id \notin Index(last.pre)) =>
        /\ ~last.raised
        /\ leads_df = last.pre
DaysAhead == 0..MaxDaysAhead
AllDates == 0..(MaxDate + TicksPerDay)

\* the records whose follow-up is open: a date is set and it is not completed
OpenIds(df) == {df.rows[i].id : i \in {j \in DOMAIN df.rows : OpenFollowup(df.rows[j])}}

\* the records due more than N days after today
DueBeyond(df, N) ==
    {df.rows[i].id : i \in {j \in DOMAIN df.rows :
        FollowupTick(df.rows[j]) > Today + N * TicksPerDay}}

\* how many of the three sets hold record id
InCount(id, N) ==
    (IF id \in get_overdue_followups(leads_df, now) THEN 1 ELSE 0)
    + (IF id \in get_upcoming_followups(leads_df, now, N) THEN 1 ELSE 0)
    + (IF id \in DueBeyond(leads_df, N) THEN 1 ELSE 0)

C4_CompleteRemovesAndIsIdempotent ==
    /\ (CalledOnPresent("complete_followup")
          /\ last.id \in get_overdue_followups(last.pre, now)) =>
        /\ last.id \notin get_overdue_followups(leads_df, now)
        /\ \A date \in AllDates : last.id \notin get_daily_tasks(leads_df, date)
    /\ (CalledOnPresent("complete_followup")
          /\ last.prevOp = "complete_followup" /\ last.prevId = last.id) =>
        leads_df = last.pre

\* the second of two calls in a row, on a record whose date has passed
C4_Witness ==
    /\ CalledOnPresent("complete_followup")
    /\ last.prevOp = "complete_followup" /\ last.prevId = last.id
    /\ FollowupTick(leads_df.rows[Pos(leads_df, last.id)]) # -1
    /\ FollowupTick(leads_df.rows[Pos(leads_df, last.id)]) < Today
    /\ RowOf(leads_df, last.id)["follow_up_completed"] = Bool(TRUE)

PersistedRows == IF db.stored THEN db.data_json.rows ELSE <<>>
InMemoryRows == IF leads_df.loaded THEN to_json(leads_df).rows ELSE <<>>

\* C6: after load_data of any table, a table with zero rows included, with
\* the gateway working, the persisted table is the newly imported table, and
\* a reload right after the import restores that table and no record of the
\* dataset before it.
C6_ImportReplacesPersistedTable ==
    /\ (last.op = "load_data" /\ last.gw) => PersistedRows = InMemoryRows
    /\ (last.op = "load_from_database" /\ last.prevOp = "load_data" /\ last.gw) =>
         InMemoryRows = to_json(last.pre).rows

\* the mutation call went past its guards: the store held a record and, for
\* add_note, the text does not trim to empty and the call did not raise
Effective ==
    /\ last.op \in MutationOps
    /\ has_data(last.pre)
    /\ ~last.raised
    /\ last.op = "add_note" => strip(last.arg.s) # <<>>

\* C7 as stated: in every state reached after a mutation operation returns
\* with the gateway working, the persisted table equals the in-memory table.
C7_EveryMutationCallMirrored ==
    (last.op \in MutationOps /\ ~last.raised /\ last.gw) =>
        PersistedRows = InMemoryRows

\* C7: after a mutation call that is not a no-op (the store holds a record
\* and, for add_note, the text does not trim to empty) returns with the
\* gateway working, the gateway holds the whole in-memory table, the mapping
\* and the original columns.
C7_EffectiveMutationMirrored ==
    (Effective /\ last.gw) =>
        /\ db.stored
        /\ db.data_json = to_json(leads_df)
        /\ db.column_mapping_json = column_mapping
        /\ db.original_columns_json = original_columns

\* a mutation changed the table while the gateway held an older one, and the
\* gateway now holds the changed table
C7_Witness ==
    /\ Effective /\ last.gw
    /\ leads_df # last.pre
    /\ last.prevOp = "gateway"
    /\ db.data_json = to_json(leads_df)
    /\ Len(leads_df.rows) = MaxRows

\* the cells a mutation call writes hold the values of the call
WrittenCellsHold ==
    LET row == RowOf(leads_df, last.id)
        col(name) == WrittenColumn(last.pre, column_mapping, name)
        note == Get(row, col("notes"), Null)
    IN  CASE last.op = "update_lead_status" ->
               /\ Get(row, col("status"), Null) = last.arg
               /\ row["last_contact"] = TodayText
          [] last.op = "update_lead_priority" -> row["priority"] = last.arg
          [] last.op = "schedule_followup" ->
               /\ row["follow_up_date"] = last.arg
               /\ row["follow_up_completed"] = Bool(FALSE)
          [] last.op = "complete_followup" ->
               row["follow_up_completed"] = Bool(TRUE) /\ row["last_contact"] = TodayText
          [] last.op = "add_note" ->
               /\ note.k = "str"
               /\ Len(note.s) >= Len(last.arg.s) + 1
               /\ SubSeq(note.s, Len(note.s) - Len(last.arg.s) + 1, Len(note.s))
                    = last.arg.s

\* the call reached the gateway: it passed its guards and, for add_note, the
\* record is in the store (the read of line 320 comes before any gateway call)
ReachedGateway ==
    /\ last.op \in MutationOps
    /\ has_data(last.pre)
    /\ last.op = "add_note" =>
         (strip(last.arg.s) # <<>> /\ last.id \in Index(last.pre))

\* C8: when the gateway fails (save and audit write) during a mutation, no
\* error reaches the caller, the in-memory table holds the new field values,
\* and the store still has data for later queries and mutations.
C8_GatewayFailureKeepsMutation ==
    (ReachedGateway /\ ~last.gw) =>
        /\ ~last.raised
        /\ last.id \in Index(leads_df)
        /\ WrittenCellsHold
        /\ has_data(leads_df)

\* a mutation changed a record while the gateway was failing, and what the
\* gateway holds is not the in-memory table
C8_Witness ==
    /\ ReachedGateway /\ ~last.gw
    /\ last.id \in Index(last.pre)
    /\ leads_df # last.pre
    /\ PersistedRows # InMemoryRows
    /\ Len(audit) = last.preAudit

\* the stamped text add_note builds from its argument
Stamped(note) == <<"[" \o MinuteText(now) \o "] ">> \o note

\* C9: add_note(id, text): a text that trims to empty changes no field and
\* appends no audit entry; otherwise the resolved notes of the record (alias
\* `notes` first, then the mapped column) are the prior resolved notes, a
\* newline and the stamped text (the stamped text alone when there were no
\* prior notes), and one audit entry with the prior notes as old value is
\* appended.
C9_AddNoteAppendsToResolvedNotes ==
    /\ (last.op = "add_note" /\ strip(last.arg.s) = <<>>) =>
         (leads_df = last.pre /\ Len(audit) = last.preAudit)
    /\ (CalledOnPresent("add_note") /\ strip(last.arg.s) # <<>> /\ last.gw) =>
         LET prior == Resolve(RowOf(last.pre, last.id), column_mapping, "notes", Null)
             after == Resolve(RowOf(leads_df, last.id), column_mapping, "notes", Null)
         IN  /\ after = IF isna(prior) \/ prior = Str(<<>>)
                        THEN Str(Stamped(last.arg.s))
                        ELSE Str(prior.s \o <<"\n">> \o Stamped(last.arg.s))
             /\ Len(audit) = last.preAudit + 1
             /\ audit[Len(audit)].field_name = "notes"
             /\ audit[Len(audit)].old_value = PyStr(prior)

\* C10: the accessor returns the value of the column named semantic_name
\* when the record has it; else the value of the mapped source column when
\* the mapping names one and the record has it; else the default of the
\* caller. It is total: every query has a result.
C10_ResolveThreeTiers ==
    rq.phase = "out" =>
        rq.out = IF rq.name \in DOMAIN rq.row THEN rq.row[rq.name]
                 ELSE IF rq.cm[rq.name] # "" /\ rq.cm[rq.name] \in DOMAIN rq.row
                      THEN rq.row[rq.cm[rq.name]]
                      ELSE rq.default

\* a query answered from the mapped source column on a record that has no
\* alias column
C10_Witness ==
    /\ rq.phase = "out"
    /\ rq.name \notin DOMAIN rq.row
    /\ rq.cm[rq.name] \in DOMAIN rq.row
    /\ rq.out = Str(<<"new">>)
    /\ rq.out # rq.default
(* --------------------- filters and status readers ---------------------- *)
\* str.lower() on the texts in use
Lower(t) ==
    CASE t = "QUAL" -> "qual"
      [] t = "None" -> "none"
      [] t = "Medium" -> "medium"
      [] t = "High" -> "high"
      [] t = "Low" -> "low"
      [] OTHER -> t

\* the lower-case patterns in use that occur inside a lower-case text
Fragments(t) ==
    CASE t = "qualified" -> {"qual", "qualified"}
      [] t = "closed won" -> {"closed", "won", "closed won"}
      [] OTHER -> {t}

\* Series.astype(str).str.contains(pat, case=False, na=False) on one cell
contains(v, pat) ==
    pat = "" \/ \E i \in DOMAIN PyStr(v) : Lower(pat) \in Fragments(Lower(PyStr(v)[i]))

\* the ids of the rows of a frame, and the frame restricted to a set of ids
RowIds(df, keep(_)) ==
    {df.rows[i].id : i \in {j \in DOMAIN df.rows : keep(df.rows[j])}}

\* get_filtered_leads, lines 211-223: the columns the search step reads
search_columns(df, cm) ==
    {c \in {"name", "email", "company"} : c \in df.cols}
    \cup {MapGet(cm, c, "") : c \in {c2 \in {"name", "email", "company"} :
            c2 \notin df.cols /\ MapGet(cm, c2, "") \in df.cols}}

\* get_filtered_leads: the index labels of the rows returned
get_filtered_leads(df, cm, search_term, status_filter, priority_filter) ==
    IF ~has_data(df) THEN {}
    ELSE LET status_col == MapGet(cm, "status", "status")
             searched(row) ==
                 (search_term # "" /\ search_columns(df, cm) # {}) =>
                     \E c \in search_columns(df, cm) : contains(row.c[c], search_term)
             status_ok(row) ==
                 (status_filter # "All" /\ status_col \in df.cols) =>
                     contains(row.c[status_col], status_filter)
             priority_ok(row) ==
                 (priority_filter # "All" /\ "priority" \in df.cols) =>
                     row.c["priority"] = Str(<<priority_filter>>)
             keep(row) == searched(row) /\ status_ok(row) /\ priority_ok(row)
         IN  RowIds(df, keep)

\* get_unique_statuses: the texts returned (the list is their sorted order)
get_unique_statuses(df, cm) ==
    IF ~has_data(df) \/ MapGet(cm, "status", "status") \notin df.cols THEN {}
    ELSE {PyStr(df.rows[i].c[MapGet(cm, "status", "status")]) :
            i \in {j \in DOMAIN df.rows :
                     ~isna(df.rows[j].c[MapGet(cm, "status", "status")])}}
         \ {<<>>, <<"nan">>}

\* value_counts().to_dict() of the non-null cells of a column
value_counts(df, col) ==
    LET vals == {df.rows[i].c[col] : i \in {j \in DOMAIN df.rows : ~isna(df.rows[j].c[col])}}
    IN  [v \in vals |-> Cardinality({i \in DOMAIN df.rows : df.rows[i].c[col] = v})]

\* get_analytics: status_distribution
status_distribution(df, cm) ==
    IF ~has_data(df) \/ MapGet(cm, "status", "status") \notin df.cols THEN <<>>
    ELSE value_counts(df, MapGet(cm, "status", "status"))

StatusFilters == {"All", "QUAL", "contacted"}
PriorityFilters == {"All", "High"}
SearchTerms == {"", "lead0"}

\* the status of a row as the accessor resolves it
ResolvedStatus(row) == Resolve(row.c, column_mapping, "status", Null)

\* C11: in every state the status filter, get_unique_statuses and the
\* analytics status distribution read, for every record, the value the
\* accessor resolves: the alias column first, the mapped source column only
\* when the alias is absent.
C11_ConsumersReadResolvedStatus ==
    has_data(leads_df) =>
        LET resolved == {i \in DOMAIN leads_df.rows : ~isna(ResolvedStatus(leads_df.rows[i]))}
            vals == {ResolvedStatus(leads_df.rows[i]) : i \in resolved}
            resolvable == \/ "status" \in leads_df.cols
                          \/ MapGet(column_mapping, "status", "") \in leads_df.cols
            keeps(f) == LET k(row) == resolvable => contains(ResolvedStatus(row), f)
                        IN  RowIds(leads_df, k)
        IN  /\ get_unique_statuses(leads_df, column_mapping)
                 = {PyStr(v) : v \in vals}
            /\ status_distribution(leads_df, column_mapping)
                 = [v \in vals |-> Cardinality({i \in resolved :
                                      ResolvedStatus(leads_df.rows[i]) = v})]
            /\ \A f \in StatusFilters \ {"All"} :
                 get_filtered_leads(leads_df, column_mapping, "", f, "All") = keeps(f)
\* the last call was a mutation that went past the has_data / blank-text guards
GuardsPassed ==
    /\ last.op \in MutationOps
    /\ has_data(last.pre)
    /\ last.op = "add_note" => strip(last.arg.s) # <<>>

\* the earlier entries are kept as they were
AuditKept == /\ Len(audit') >= Len(audit)
             /\ SubSeq(audit', 1, Len(audit)) = audit

\* C12 as stated: every mutation call that returns and mutates the store
\* appends exactly one audit entry, every other operation appends none, and
\* no entry is ever removed or rewritten.
C12_OneEntryPerMutatingCall ==
    [][/\ AuditKept
       /\ Len(audit') = Len(audit)
            + (IF last'.op \in MutationOps /\ ~last'.raised /\ leads_df' # leads_df
               THEN 1 ELSE 0)]_vars

\* C12: with the gateway working, every mutation call that passes its guards
\* and returns appends exactly one audit entry (also when it rewrites the
\* values the record already has); a call made while the gateway fails, a call
\* that raises, a guarded no-op and every import, reload, clock or gateway
\* step append none; and no entry is ever removed or rewritten.
C12_OneEntryPerEffectiveCall ==
    [][/\ AuditKept
       /\ Len(audit') = Len(audit)
            + (IF GuardsPassed' /\ ~last'.raised /\ last'.gw THEN 1 ELSE 0)]_vars

\* two mutations have each appended their entry
C12_Witness ==
    /\ GuardsPassed /\ last.gw /\ ~last.raised
    /\ last.preAudit = 1 /\ Len(audit) = 2
    /\ audit[1].field_name # audit[2].field_name
\* the calendar day of a tick
DayOf(t) == t \div TicksPerDay

\* C13: for a non-completed record whose follow_up_date is on calendar day d,
\* whatever its time of day: it is in overdue() iff d < today, in upcoming(N)
\* iff today <= d <= today + N, and in daily(date) iff d is the day of date.
C13_ViewsCompareDaysOnly ==
    \A i \in DOMAIN leads_df.rows :
        LET row == leads_df.rows[i]
            d == DayOf(FollowupTick(row))
        IN  (has_data(leads_df) /\ OpenFollowup(row) /\ FollowupTick(row) # -1) =>
              /\ (row.id \in get_overdue_followups(leads_df, now)) <=> (d < DayOf(now))
              /\ \A N \in DaysAhead :
                   (row.id \in get_upcoming_followups(leads_df, now, N))
                     <=> (DayOf(now) <= d /\ d <= DayOf(now) + N)
              /\ \A date \in AllDates :
                   (row.id \in get_daily_tasks(leads_df, date)) <=> (d = DayOf(date))
(* ------------------------- imports that fail --------------------------- *)
\* a sheet whose last header cell is a number: pd.read_excel labels that
\* column with the int 2024, written here as "2024"
RawColumnsBad == RawColumns \o <<"2024">>

is_text_header(col) == col # "2024"

RawFileBad(n) ==
    [loaded |-> TRUE,
     cols   |-> {RawColumnsBad[j] : j \in DOMAIN RawColumnsBad},
     rows   |-> [i \in 1..n |->
                   [id |-> i - 1,
                    c  |-> [x \in {RawColumnsBad[j] : j \in DOMAIN RawColumnsBad} |->
                              IF x = "2024" THEN Str(<<"x">>) ELSE RawCell(i - 1, x)]]]]

\* one pass of the loop of _clean_data_types over an object column
CleanColumn(df, col) ==
    [df EXCEPT !.rows = [i \in DOMAIN df.rows |->
        [df.rows[i] EXCEPT !.c[col] = CleanCell(df.rows[i].c[col])]]]

\* _clean_data_types column by column: col.lower() in
\* _process_multiple_values raises AttributeError on a header that is not text
RECURSIVE clean_data_types_from(_, _, _)
clean_data_types_from(df, colseq, j) ==
    IF j > Len(colseq) THEN [df |-> df, raised |-> FALSE]
    ELSE IF ~is_text_header(colseq[j])
         THEN [df |-> CleanColumn(df, colseq[j]), raised |-> TRUE]
         ELSE clean_data_types_from(CleanColumn(df, colseq[j]), colseq, j + 1)

\* LeadManager.load_data on such a sheet: lines 19-21 have replaced the three
\* fields when _clean_data_types raises; the page reports the error
load_data_fault(n, m) ==
    /\ steps < MaxSteps
    /\ LET r == clean_data_types_from(RawFileBad(n), RawColumnsBad, 1)
       IN  /\ r.raised
           /\ leads_df' = r.df
           /\ column_mapping' = m
           /\ original_columns' = RawColumnsBad
    /\ last' = Called("load_data", -1, Null, TRUE)
    /\ steps' = steps + 1
    /\ UNCHANGED <<db, audit, now, dbOk, rq>>

\* pd.read_excel raises on a file it cannot read: load_data is not reached
read_excel_fails ==
    /\ steps < MaxSteps
    /\ last' = Called("read_excel", -1, Null, TRUE)
    /\ steps' = steps + 1
    /\ UNCHANGED <<leads_df, column_mapping, original_columns, db, audit, now,
                   dbOk, rq>>

\* a sheet that already carries a priority column, with a value of its own in
\* the even rows and an empty cell in the odd ones
RawColumnsManaged == RawColumns \o <<"priority">>

RawFileManaged(n) ==
    [loaded |-> TRUE,
     cols   |-> {RawColumnsManaged[j] : j \in DOMAIN RawColumnsManaged},
     rows   |-> [i \in 1..n |->
                   [id |-> i - 1,
                    c  |-> [x \in {RawColumnsManaged[j] : j \in DOMAIN RawColumnsManaged} |->
                              IF x = "priority"
                              THEN (IF (i - 1) % 2 = 0 THEN Str(<<"Urgent">>) ELSE Null)
                              ELSE RawCell(i - 1, x)]]]]

\* LeadManager.load_data on such a sheet
load_data_managed(n, m) ==
    /\ steps < MaxSteps
    /\ LET raw == RawFileManaged(n)
           df  == normalized(raw, m)
       IN  /\ leads_df' = df
           /\ column_mapping' = m
           /\ original_columns' = RawColumnsManaged
           /\ db' = save_to_database(db, df, m, RawColumnsManaged, dbOk)
    /\ last' = Called("load_data", -1, Null, FALSE)
    /\ steps' = steps + 1
    /\ UNCHANGED <<audit, now, dbOk, rq>>

NextImport ==
    \/ \E n \in {0, MaxRows}, m \in FormMappings : load_data(n, m)
    \/ \E n \in {0, MaxRows}, m \in FormMappings : load_data_managed(n, m)
    \/ \E n \in {0, MaxRows}, m \in FormMappings : load_data_fault(n, m)
    \/ read_excel_fails
    \/ load_from_database
    \/ GatewayToggle

SpecImport == Init /\ [][NextImport]_vars

\* C14: an import that fails, in reading the file or inside load_data,
\* commits nothing: the in-memory table, the mapping, the original columns
\* and the persisted table are what they were before the attempt.
C14_FailedImportCommitsNothing ==
    [][(last'.raised /\ last'.op \in {"load_data", "read_excel"}) =>
          UNCHANGED <<leads_df, column_mapping, original_columns, db>>]_vars
\* the fields each mutation is specified to write
NamedFields(op) ==
    CASE op = "update_lead_status" -> {"status", "last_contact"}
      [] op = "update_lead_priority" -> {"priority"}
      [] op = "schedule_followup" -> {"follow_up_date", "follow_up_completed"}
      [] op = "add_note" -> {"notes"}
      [] op = "complete_followup" -> {"follow_up_completed", "last_contact"}

\* C15: a mutation on identifier id leaves every field of every other record
\* as it was (a column the operation creates is empty for them), and changes
\* on record id only the fields named for the operation.
C15_MutationTouchesOneRecord ==
    (last.op \in MutationOps /\ has_data(last.pre) /\ ~last.raised) =>
        /\ \A j \in Index(last.pre) \ {last.id} :
             /\ j \in Index(leads_df)
             /\ \A col \in last.pre.cols :
                  RowOf(leads_df, j)[col] = RowOf(last.pre, j)[col]
             /\ \A col \in leads_df.cols \ last.pre.cols :
                  RowOf(leads_df, j)[col] \in {Null, Str(<<>>)}
        /\ last.id \in Index(last.pre) =>
             \A col \in last.pre.cols \ NamedFields(last.op) :
                  RowOf(leads_df, last.id)[col] = RowOf(last.pre, last.id)[col]
(* --------------------------- value splitter ---------------------------- *)
\* A cell text is here a sequence of characters.
MaxLen == 4

Whitespace == {" ", "\n", "\r"}

\* str.strip()
RECURSIVE py_lstrip(_)
py_lstrip(x) == IF x # <<>> /\ x[1] \in Whitespace THEN py_lstrip(Tail(x)) ELSE x
RECURSIVE py_rstrip(_)
py_rstrip(x) ==
    IF x # <<>> /\ x[Len(x)] \in Whitespace
    THEN py_rstrip(SubSeq(x, 1, Len(x) - 1)) ELSE x
py_strip(x) == py_rstrip(py_lstrip(x))

\* str.split(sep): the pieces between the occurrences of sep, empty ones kept
RECURSIVE py_split(_, _)
py_split(x, sep) ==
    LET hits == {i \in 1..(Len(x) - Len(sep) + 1) : SubSeq(x, i, i + Len(sep) - 1) = sep}
    IN  IF hits = {} THEN <<x>>
        ELSE LET i == CHOOSE h \in hits : \A g \in hits : h <= g
             IN  <<SubSeq(x, 1, i - 1)>> \o py_split(SubSeq(x, i + Len(sep), Len(x)), sep)

\* [v.strip() for v in val.split(sep) if v.strip()]
stripped_pieces(val, sep) ==
    LET pieces == py_split(val, sep)
        nonblank(v) == py_strip(v) # <<>>
        kept == SelectSeq(pieces, nonblank)
    IN  [i \in DOMAIN kept |-> py_strip(kept[i])]

\* one pass of the loop over the separators: every value split again
RECURSIVE split_pass(_, _)
split_pass(values, sep) ==
    IF values = <<>> THEN <<>>
    ELSE stripped_pieces(Head(values), sep) \o split_pass(Tail(values), sep)

RECURSIVE split_cascade(_, _, _)
split_cascade(values, seps, j) ==
    IF j > Len(seps) THEN values
    ELSE split_cascade(split_pass(values, seps[j]), seps, j + 1)

\* a variant of fromkeys that keeps every occurrence
fromkeys_all(values) == values

\* list(dict.fromkeys(values)): first occurrences, in order
RECURSIVE fromkeys(_)
fromkeys(values) ==
    IF values = <<>> THEN <<>>
    ELSE LET init == fromkeys(SubSeq(values, 1, Len(values) - 1))
             v == values[Len(values)]
         IN  IF \E i \in DOMAIN init : init[i] = v THEN init ELSE Append(init, v)

\* separators of _process_multiple_values
separators == << <<";">>, <<",">>, <<"|">>, <<"\n">>, <<"\r", "\n">> >>

\* _process_multiple_values, lines 79-90: processed_values before the
\* duplicates are removed, and unique_values
processed_values(x) == split_cascade(<<x>>, separators, 1)
unique_values(x) == fromkeys(processed_values(x))

\* ', '.join(values)
RECURSIVE join(_)
join(values) ==
    IF values = <<>> THEN <<>>
    ELSE IF Len(values) = 1 THEN values[1]
    ELSE values[1] \o <<",", " ">> \o join(Tail(values))

\* the characters and the texts the splitter is run on
SplitChars == {"a", "b", " ", ";", ",", "|", "\n", "\r"}
RECURSIVE TextsUpTo(_, _)
TextsUpTo(chars, n) ==
    IF n = 0 THEN {<<>>}
    ELSE LET shorter == TextsUpTo(chars, n - 1)
         IN  shorter \cup {Append(t, c) : t \in shorter, c \in chars}
ListedCell == <<"b", ";", " ", "a", ",", "b", "|", "a", "\r", "\n", "b", " ", "a">>

\* one run of the splitter on the text drawn at the start, and a second run
\* on the joined result
SplitCall ==
    /\ rq.phase = "in"
    /\ rq' = [rq EXCEPT !.phase = "out",
                        !.out = unique_values(rq.x),
                        !.again = unique_values(join(unique_values(rq.x)))]
    /\ UNCHANGED <<leads_df, column_mapping, original_columns, db, audit, now,
                   dbOk, last, steps>>

InitSplit ==
    /\ leads_df = NoDF
    /\ column_mapping = NoMapping
    /\ original_columns = <<>>
    /\ db = EmptyDb
    /\ audit = <<>>
    /\ now = StartNow
    /\ dbOk = TRUE
    /\ last = NoCall
    /\ steps = 0
    /\ \E x \in TextsUpTo(SplitChars, MaxLen) \cup {ListedCell} :
          rq = [phase |-> "in", x |-> x, out |-> <<>>, again |-> <<>>]

NextSplit == SplitCall

SpecSplit == InitSplit /\ [][NextSplit]_vars

\* the position of the first occurrence of v in a list
FirstAt(values, v) == CHOOSE i \in DOMAIN values :
                         values[i] = v /\ \A j \in 1..(i - 1) : values[j] # v

\* C16: split(join(split(x), ", ")) = split(x) for every text x over the
\* separators; split(x) has no duplicate, no empty and no untrimmed fragment
\* and no fragment with a separator in it, keeps the order in which the
\* fragments are first seen, and is empty for the empty text.
C16_SplitterIdempotentCanonical ==
    rq.phase = "out" =>
        /\ rq.again = rq.out
        /\ \A i, j \in DOMAIN rq.out : rq.out[i] = rq.out[j] => i = j
        /\ \A i \in DOMAIN rq.out :
             /\ rq.out[i] # <<>>
             /\ py_strip(rq.out[i]) = rq.out[i]
             /\ \A k \in DOMAIN rq.out[i] : rq.out[i][k] \notin {";", ",", "|", "\n"}
        /\ {rq.out[i] : i \in DOMAIN rq.out}
             = {processed_values(rq.x)[i] : i \in DOMAIN processed_values(rq.x)}
        /\ \A i, j \in DOMAIN rq.out :
             i < j => FirstAt(processed_values(rq.x), rq.out[i])
                        < FirstAt(processed_values(rq.x), rq.out[j])
        /\ rq.x = <<>> => rq.out = <<>>

\* a text with all the separators and a repeated fragment has been split
C16_Witness ==
    /\ rq.phase = "out"
    /\ rq.x = ListedCell
    /\ rq.out = << <<"b">>, <<"a">>, <<"b", " ", "a">> >>
    /\ rq.again = rq.out
(* ------------------------------ emails --------------------------------- *)
\* A float NaN cell, where it has to be told apart from None: a column that
\* is empty in the whole sheet is read as float64 and left alone by
\* _clean_data_types, and a row added by a write to a new label holds NaN
NaN == [k |-> "nan", s |-> <<>>, n |-> 0]

\* separators of get_multiple_emails
email_separators == << <<",">>, <<";">>, <<"|">>, <<"\n">>, <<"\r", "\n">> >>

\* email.split('@')[-1]: the text after the last '@'
after_last_at(email) ==
    LET ats == {i \in DOMAIN email : email[i] = "@"}
    IN  IF ats = {} THEN email
        ELSE SubSeq(email, (CHOOSE i \in ats : \A j \in ats : j <= i) + 1, Len(email))

\* '@' in email and '.' in email.split('@')[-1]
valid_email(email) ==
    /\ \E i \in DOMAIN email : email[i] = "@"
    /\ \E i \in DOMAIN after_last_at(email) : after_last_at(email)[i] = "."

\* get_multiple_emails on the cell of the email column (present is FALSE
\* when the frame has no such column): the list returned, or raised
get_multiple_emails(present, email_value) ==
    IF ~present THEN [raised |-> FALSE, out |-> <<>>]
    ELSE IF email_value.k = "null" \/ email_value = Str(<<>>)
            \/ email_value = Str(<<"N", "o", "n", "e">>)
         THEN [raised |-> FALSE, out |-> <<>>]
    ELSE IF email_value.k # "str"
         THEN \* a float has no split: AttributeError at line 111
              [raised |-> TRUE, out |-> <<>>]
    ELSE [raised |-> FALSE,
          out |-> fromkeys(SelectSeq(split_cascade(<<email_value.s>>, email_separators, 1),
                                     valid_email))]

EmailChars == {"a", "@", ".", ",", " "}
ListedEmails == <<"a", "@", "x", ".", "c", ";", " ", "b", "@", "y", ".", "c", ",",
                  "a", "@", "x", ".", "c">>
EmailCells ==
    {Null, NaN} \cup {Str(x) : x \in TextsUpTo(EmailChars, MaxLen) \cup {ListedEmails}}

\* one call of get_multiple_emails on the query drawn at the start
EmailCall ==
    /\ rq.phase = "in"
    /\ rq' = [rq EXCEPT !.phase = "emails",
                        !.out = get_multiple_emails(rq.present, rq.cell).out,
                        !.raised = get_multiple_emails(rq.present, rq.cell).raised]
    /\ UNCHANGED <<leads_df, column_mapping, original_columns, db, audit, now,
                   dbOk, last, steps>>

InitEmails ==
    /\ leads_df = NoDF
    /\ column_mapping = NoMapping
    /\ original_columns = <<>>
    /\ db = EmptyDb
    /\ audit = <<>>
    /\ now = StartNow
    /\ dbOk = TRUE
    /\ last = NoCall
    /\ steps = 0
    /\ \E present \in BOOLEAN, cell \in EmailCells :
          rq = [phase |-> "in", present |-> present, cell |-> cell,
                out |-> <<>>, raised |-> FALSE]

NextEmails == EmailCall

SpecEmails == InitEmails /\ [][NextEmails]_vars

\* C17: multiEmails returns, in first-seen order and without duplicates, the
\* fragments of the Value Splitter on the email cell that contain '@' and have
\* a '.' after the last '@'; a null or absent cell gives the empty list.
C17_MultiEmails ==
    rq.phase = "emails" =>
        /\ ~rq.raised
        /\ rq.out = IF rq.present /\ rq.cell.k = "str"
                    THEN SelectSeq(unique_values(rq.cell.s), valid_email)
                    ELSE <<>>
(* ------------------------- ordered daily tasks ------------------------- *)
\* daily_tasks['priority'].map(priority_order).fillna(2)
priority_order(row) ==
    LET p == row.c["priority"]
    IN  IF p = Str(<<"High">>) THEN 3
        ELSE IF p = Str(<<"Low">>) THEN 1
        ELSE 2

\* the positions of the rows get_daily_tasks selects, in frame order
daily_positions(df, date) ==
    {j \in DOMAIN df.rows :
        /\ OpenFollowup(df.rows[j])
        /\ FollowupTick(df.rows[j]) # -1
        /\ normalize(FollowupTick(df.rows[j])) = normalize(date)}

\* the positions of a set in the order `before`, which is total on them
Sorted(S, before(_, _)) ==
    [k \in 1..Cardinality(S) |->
        CHOOSE i \in S : Cardinality({j \in S \ {i} : before(j, i)}) = k - 1]

\* sort_values(['priority_order', 'follow_up_date'], ascending=[False, True])
\* on the selected rows. The follow_up_date column holds Timestamps written
\* by schedule_followup and ISO texts read back by pd.read_json. When the
\* selected cells are all of one kind the order is by priority, then date,
\* then position. When both kinds occur the comparison of a str with a
\* Timestamp is not defined: depending on the pandas build the call raises
\* TypeError or puts the Timestamps before the texts.
sort_outcomes(df, S) ==
    LET kinds == {df.rows[i].c["follow_up_date"].k : i \in S}
        kind_rank(i) == IF df.rows[i].c["follow_up_date"].k = "ts" THEN 0 ELSE 1
        by_date(i, j) ==
            \/ priority_order(df.rows[i]) > priority_order(df.rows[j])
            \/ /\ priority_order(df.rows[i]) = priority_order(df.rows[j])
               /\ \/ FollowupTick(df.rows[i]) < FollowupTick(df.rows[j])
                  \/ FollowupTick(df.rows[i]) = FollowupTick(df.rows[j]) /\ i < j
        by_kind(i, j) ==
            \/ priority_order(df.rows[i]) > priority_order(df.rows[j])
            \/ /\ priority_order(df.rows[i]) = priority_order(df.rows[j])
               /\ \/ kind_rank(i) < kind_rank(j)
                  \/ /\ kind_rank(i) = kind_rank(j)
                     /\ \/ FollowupTick(df.rows[i]) < FollowupTick(df.rows[j])
                        \/ FollowupTick(df.rows[i]) = FollowupTick(df.rows[j]) /\ i < j
        ids(order) == [k \in DOMAIN order |-> df.rows[order[k]].id]
    IN  IF Cardinality(kinds) <= 1
        THEN {[raised |-> FALSE, order |-> ids(Sorted(S, by_date))]}
        ELSE {[raised |-> TRUE, order |-> <<>>],
              [raised |-> FALSE, order |-> ids(Sorted(S, by_kind))]}

\* get_daily_tasks(date) with the order of its rows: the possible results
get_daily_tasks_ordered(df, date) ==
    IF ~has_data(df) THEN {[raised |-> FALSE, order |-> <<>>]}
    ELSE IF daily_positions(df, date) = {} THEN {[raised |-> FALSE, order |-> <<>>]}
    ELSE sort_outcomes(df, daily_positions(df, date))

\* the priority rank and the due tick of record id
RankOf(id) ==
    LET p == RowOf(leads_df, id)["priority"]
    IN  IF p = Str(<<"High">>) THEN 3 ELSE IF p = Str(<<"Low">>) THEN 1 ELSE 2
DueTick(id) == to_datetime(RowOf(leads_df, id)["follow_up_date"])

\* C18: daily(date) returns exactly the non-completed records due on the day
\* of date, High before Medium before Low (a missing or unknown priority as
\* Medium) and, within one priority, by follow_up_date ascending.
C18_DailyOrdered ==
    \A date \in AllDates : \A r \in get_daily_tasks_ordered(leads_df, date) :
        /\ ~r.raised
        /\ {r.order[k] : k \in DOMAIN r.order}
             = {id \in Index(leads_df) :
                  /\ has_data(leads_df)
                  /\ ~isna(RowOf(leads_df, id)["follow_up_date"])
                  /\ RowOf(leads_df, id)["follow_up_completed"] = Bool(FALSE)
                  /\ DueTick(id) # -1
                  /\ DayOf(DueTick(id)) = DayOf(date)}
        /\ \A k \in 1..(Len(r.order) - 1) :
             \/ RankOf(r.order[k]) > RankOf(r.order[k + 1])
             \/ /\ RankOf(r.order[k]) = RankOf(r.order[k + 1])
                /\ DueTick(r.order[k]) <= DueTick(r.order[k + 1])
\* the columns of the frame that resolve the search fields (alias first)
ResolvedSearchColumns ==
    {c \in {"name", "email", "company"} : c \in leads_df.cols}
    \cup {MapGet(column_mapping, c, "") :
            c \in {c2 \in {"name", "email", "company"} :
                     c2 \notin leads_df.cols
                     /\ MapGet(column_mapping, c2, "") \in leads_df.cols}}

\* C19: filter(searchTerm, statusFilter, priorityFilter) returns exactly the
\* records that pass the three steps: the resolved status contains
\* statusFilter as a case-insensitive substring, the priority is exactly
\* priorityFilter, a resolved search column contains the term; "All", an
\* empty term and a step whose column is absent keep every record.
C19_FilterKeepsMatchingRecords ==
    has_data(leads_df) =>
        \A term \in SearchTerms, f \in StatusFilters, pf \in PriorityFilters :
            get_filtered_leads(leads_df, column_mapping, term, f, pf)
              = {leads_df.rows[i].id : i \in {j \in DOMAIN leads_df.rows :
                   LET row == leads_df.rows[j]
                   IN  /\ (term # "" /\ ResolvedSearchColumns # {}) =>
                             \E c \in ResolvedSearchColumns : contains(row.c[c], term)
                       /\ (f # "All" /\ ("status" \in leads_df.cols
                              \/ MapGet(column_mapping, "status", "") \in leads_df.cols)) =>
                             contains(ResolvedStatus(row), f)
                       /\ (pf # "All" /\ "priority" \in leads_df.cols) =>
                             row.c["priority"] = Str(<<pf>>)}}
(* ------------------------------ analytics ------------------------------ *)
\* the number of rows of a frame that satisfy a mask
CountRows(df, mask(_)) == Cardinality({j \in DOMAIN df.rows : mask(df.rows[j])})

\* a variant of get_analytics that counts completed follow-ups as active
get_analytics_with_completed(df, cm, t) ==
    LET dated(row) == ~isna(row.c["follow_up_date"])
        overdue(row) == /\ OpenFollowup(row) /\ FollowupTick(row) # -1
                        /\ FollowupTick(row) < normalize(t)
    IN  [total_leads |-> Len(df.rows),
         active_followups |-> IF has_data(df) THEN CountRows(df, dated) ELSE 0,
         overdue_tasks |-> IF has_data(df) THEN CountRows(df, overdue) ELSE 0,
         qualified_leads |-> 0,
         status_distribution |-> status_distribution(df, cm),
         priority_distribution |-> IF has_data(df) THEN value_counts(df, "priority") ELSE <<>>]

\* LeadManager.get_analytics at clock t
get_analytics(df, cm, t) ==
    IF ~has_data(df)
    THEN [total_leads |-> 0, active_followups |-> 0, overdue_tasks |-> 0,
          qualified_leads |-> 0, status_distribution |-> <<>>,
          priority_distribution |-> <<>>]
    ELSE LET status_col == MapGet(cm, "status", "status")
             overdue(row) == /\ OpenFollowup(row) /\ FollowupTick(row) # -1
                             /\ FollowupTick(row) < normalize(t)
             has(word) == LET m(row) == contains(row.c[status_col], word)
                          IN  CountRows(df, m)
         IN  [total_leads |-> Len(df.rows),
              active_followups |-> CountRows(df, OpenFollowup),
              overdue_tasks |-> CountRows(df, overdue),
              qualified_leads |-> IF status_col \in df.cols
                                  THEN has("qualified") + has("closed") + has("won")
                                  ELSE 0,
              status_distribution |-> status_distribution(df, cm),
              priority_distribution |-> value_counts(df, "priority")]

qualified_statuses == {"qualified", "closed", "won"}

\* C21: qualifiedLeads is the sum, over the keywords qualified, closed and
\* won, of the number of records whose lower-cased resolved status (alias
\* column first) contains the keyword: a record whose status contains k of
\* them adds k, a record with a null status adds 0.
C21_QualifiedSumsPerKeyword ==
    get_analytics(leads_df, column_mapping, now).qualified_leads
      = Cardinality({jk \in (DOMAIN leads_df.rows) \X qualified_statuses :
                       /\ ~isna(ResolvedStatus(leads_df.rows[jk[1]]))
                       /\ contains(ResolvedStatus(leads_df.rows[jk[1]]), jk[2])})
(* ---------------------------- priority enum --------------------------- *)
PriorityEnum == {Str(<<"High">>), Str(<<"Medium">>), Str(<<"Low">>)}

\* C23: in every reachable state the priority of every record is one of High,
\* Medium and Low, whatever was imported and whatever argument
\* update_lead_priority was called with.
C23_PriorityInEnum ==
    \A i \in DOMAIN leads_df.rows :
        "priority" \in leads_df.cols => leads_df.rows[i].c["priority"] \in PriorityEnum
(* -------------------------- management fields ------------------------- *)
ManagementColumns == {"priority", "follow_up_date", "last_contact", "follow_up_completed"}

\* the value load_data gives a management column the file does not carry
ManagementDefault(col) ==
    CASE col = "priority" -> Str(<<"Medium">>)
      [] col = "follow_up_date" -> Null
      [] col = "last_contact" -> Null
      [] col = "follow_up_completed" -> Bool(FALSE)

\* the sheet the last import read, told by the columns it recorded
ImportedSheet ==
    IF original_columns = RawColumnsManaged THEN RawFileManaged(Len(leads_df.rows))
    ELSE IF original_columns = RawColumnsBad THEN RawFileBad(Len(leads_df.rows))
    ELSE RawFile(Len(leads_df.rows))

\* C22: after an import of any table and mapping, and after any later reload,
\* every record has the fields priority, follow_up_date, last_contact and
\* follow_up_completed; right after the import a field the file did not carry
\* is Medium / null / null / false, and a management column the file carried
\* holds the file's values.
C22_ManagementFieldsExist ==
    /\ leads_df.loaded => ManagementColumns \subseteq leads_df.cols
    /\ (last.op = "load_data" /\ ~last.raised) =>
         \A i \in DOMAIN leads_df.rows : \A col \in ManagementColumns :
             leads_df.rows[i].c[col]
               = IF col \in ImportedSheet.cols
                 THEN CleanCell(ImportedSheet.rows[i].c[col])
                 ELSE ManagementDefault(col)
(* ------------------------------- reload -------------------------------- *)
\* the last call was an import or a mutation and the gateway holds what it
\* left in memory
JustPersisted ==
    /\ last.op \in MutationOps \cup {"load_data"}
    /\ ~last.raised /\ last.gw
    /\ db = save_leads_data(leads_df, column_mapping, original_columns)

\* C24: a reload right after a successfully persisted import or mutation
\* leaves the table, the mapping and the original columns identical to what
\* they were before the reload; a reload when nothing is stored or when the
\* load fails leaves the in-memory store unchanged.
C24_ReloadRestoresVerbatim ==
    [][last'.op = "load_from_database" =>
          /\ (JustPersisted /\ dbOk) =>
                UNCHANGED <<leads_df, column_mapping, original_columns>>
          /\ (~db.stored \/ ~dbOk) =>
                UNCHANGED <<leads_df, column_mapping, original_columns>>]_vars
(* --------------------------- read operations --------------------------- *)
\* a sheet with an email and a product column, their texts written as
\* sequences of characters; the second row has no email
RawColumnsContacts == RawColumns \o <<"email", "Products">>

ListedProducts == <<"p", "|", "q", ";", "p">>

RawFileContacts(n) ==
    [loaded |-> TRUE,
     cols   |-> {RawColumnsContacts[j] : j \in DOMAIN RawColumnsContacts},
     rows   |-> [i \in 1..n |->
                   [id |-> i - 1,
                    c  |-> [x \in {RawColumnsContacts[j] : j \in DOMAIN RawColumnsContacts} |->
                              CASE x = "email" ->
                                     IF (i - 1) % 2 = 0 THEN Str(ListedEmails) ELSE Null
                                [] x = "Products" ->
                                     IF (i - 1) % 2 = 0 THEN Str(ListedProducts)
                                     ELSE Str(<<"q">>)
                                [] OTHER -> RawCell(i - 1, x)]]]]

\* the keywords of _process_multiple_values that occur in col.lower(), for the
\* column names in use
ColumnKeywords(col) ==
    CASE col = "email" -> {"email", "mail"}
      [] col = "Products" -> {"product"}
      [] OTHER -> {}

is_email_column(col) == ColumnKeywords(col) \cap {"email", "mail", "e-mail"} # {}
is_product_column(col) ==
    ColumnKeywords(col) \cap {"product", "item", "service", "offering"} # {}

\* _process_multiple_values on one cell: a cell with more than one value is
\* stored as the values joined by ', '
ProcessCell(v) ==
    IF v.k = "str" /\ v.s # <<>> /\ v # Str(<<"N", "o", "n", "e">>)
       /\ Len(unique_values(v.s)) > 1
    THEN Str(join(unique_values(v.s)))
    ELSE v

process_multiple_values(df) ==
    [df EXCEPT !.rows = [i \in DOMAIN df.rows |->
        [df.rows[i] EXCEPT !.c = [x \in df.cols |->
            IF is_email_column(x) \/ is_product_column(x)
            THEN ProcessCell(df.rows[i].c[x]) ELSE df.rows[i].c[x]]]]]

\* LeadManager.load_data on the sheet with contacts
load_data_contacts(n, m) ==
    /\ steps < MaxSteps
    /\ LET raw == RawFileContacts(n)
           df  == standardize_columns(add_management_columns(
                     process_multiple_values(clean_data_types(raw))), m)
       IN  /\ leads_df' = df
           /\ column_mapping' = m
           /\ original_columns' = RawColumnsContacts
           /\ db' = save_to_database(db, df, m, RawColumnsContacts, dbOk)
    /\ last' = Called("load_data", -1, Null, FALSE)
    /\ steps' = steps + 1
    /\ UNCHANGED <<audit, now, dbOk, rq>>

\* get_multiple_emails(lead_idx) on the store
get_multiple_emails_of(df, cm, id) ==
    LET email_col == MapGet(cm, "email", "email")
    IN  IF ~df.loaded
        THEN \* None has no columns: AttributeError
             [raised |-> TRUE, out |-> <<>>]
        ELSE IF email_col \notin df.cols THEN [raised |-> FALSE, out |-> <<>>]
        ELSE IF id \notin Index(df)
             THEN \* df.loc[lead_idx, email_col] raises KeyError
                  [raised |-> TRUE, out |-> <<>>]
        ELSE get_multiple_emails(TRUE, Loc(df, id, email_col))

\* the product columns get_multiple_products collects, in column order
product_cols(colseq, cm) ==
    SelectSeq(colseq, is_product_column)
      \o (IF MapGet(cm, "products", "") # "" THEN <<MapGet(cm, "products", "")>> ELSE <<>>)

RECURSIVE all_products(_, _, _, _)
all_products(df, id, pcols, j) ==
    IF j > Len(pcols) THEN <<>>
    ELSE LET v == IF pcols[j] \in df.cols THEN Loc(df, id, pcols[j]) ELSE Null
         IN  (IF v.k = "str" /\ v.s # <<>> /\ v # Str(<<"N", "o", "n", "e">>)
              THEN split_cascade(<<v.s>>, email_separators, 1) ELSE <<>>)
             \o all_products(df, id, pcols, j + 1)

\* get_multiple_products(lead_idx) on the store; colseq is df.columns
get_multiple_products(df, cm, colseq, id) ==
    IF \/ ~df.loaded
       \/ /\ \E j \in DOMAIN product_cols(colseq, cm) : product_cols(colseq, cm)[j] \in df.cols
          /\ id \notin Index(df)
    THEN \* None has no columns; df.loc raises KeyError on a missing label
         [raised |-> TRUE, out |-> <<>>]
    ELSE [raised |-> FALSE, out |-> fromkeys(all_products(df, id, product_cols(colseq, cm), 1))]

NoStats == [total_leads |-> 0, active_followups |-> 0, overdue_tasks |-> 0,
            qualified_leads |-> 0]

\* a variant of the shared part of the reads that leaves the sort key of
\* get_daily_tasks in the store
Read_keeping_sort_key(op, id, raised, ids, list, stats) ==
    /\ steps < MaxSteps
    /\ last' = Called(op, id, Null, raised)
    /\ rq' = [phase |-> "read", ids |-> ids, list |-> list, stats |-> stats]
    /\ steps' = steps + 1
    /\ leads_df' = IF leads_df.loaded
                   THEN SetColumn(leads_df, "priority_order", Str(<<"2">>))
                   ELSE leads_df
    /\ UNCHANGED <<column_mapping, original_columns, db, audit, now, dbOk>>

\* the part every read shares: the call is recorded with what it returned;
\* no method assigns to self.leads_df or self.column_mapping (the views and
\* the filter work on copies) and none calls the gateway
Read(op, id, raised, ids, list, stats) ==
    /\ steps < MaxSteps
    /\ last' = Called(op, id, Null, raised)
    /\ rq' = [phase |-> "read", ids |-> ids, list |-> list, stats |-> stats]
    /\ steps' = steps + 1
    /\ UNCHANGED <<leads_df, column_mapping, original_columns, db, audit, now, dbOk>>

ReadEmails(id) ==
    LET r == get_multiple_emails_of(leads_df, column_mapping, id)
    IN  Read("get_multiple_emails", id, r.raised, {}, r.out, NoStats)

ReadProducts(id) ==
    LET r == get_multiple_products(leads_df, column_mapping, original_columns, id)
    IN  Read("get_multiple_products", id, r.raised, {}, r.out, NoStats)

ReadFilter(term, f, pf) ==
    Read("get_filtered_leads", -1, FALSE,
         get_filtered_leads(leads_df, column_mapping, term, f, pf), <<>>, NoStats)

ReadOverdue ==
    Read("get_overdue_followups", -1, FALSE,
         get_overdue_followups(leads_df, now), <<>>, NoStats)

ReadUpcoming(N) ==
    Read("get_upcoming_followups", -1, FALSE,
         get_upcoming_followups(leads_df, now, N), <<>>, NoStats)

ReadDaily(date) ==
    \E r \in get_daily_tasks_ordered(leads_df, date) :
        Read("get_daily_tasks", -1, r.raised,
             {r.order[k] : k \in DOMAIN r.order}, r.order, NoStats)

ReadAnalytics ==
    LET a == get_analytics(leads_df, column_mapping, now)
    IN  Read("get_analytics", -1, FALSE, {}, <<>>,
             [total_leads |-> a.total_leads, active_followups |-> a.active_followups,
              overdue_tasks |-> a.overdue_tasks, qualified_leads |-> a.qualified_leads])

ReadOps == {"get_multiple_emails", "get_multiple_products", "get_filtered_leads",
            "get_overdue_followups", "get_upcoming_followups", "get_daily_tasks",
            "get_analytics"}

NextReads ==
    \/ \E m \in FormMappings : load_data_contacts(MaxRows, m)
    \/ load_from_database
    \/ \E id \in {0, 1}, d \in {1, StartNow} : schedule_followup(id, d)
    \/ complete_followup(0)
    \/ update_lead_status(0, "contacted")
    \/ update_lead_priority(1, "High")
    \/ add_note(0, <<"call">>)
    \/ \E id \in Ids : ReadEmails(id)
    \/ \E id \in Ids : ReadProducts(id)
    \/ \E term \in SearchTerms, f \in StatusFilters : ReadFilter(term, f, "All")
    \/ ReadOverdue
    \/ \E N \in DaysAhead : ReadUpcoming(N)
    \/ \E date \in {1, StartNow} : ReadDaily(date)
    \/ ReadAnalytics

SpecReads == Init /\ [][NextReads]_vars

\* C25: get_multiple_emails, get_multiple_products, get_filtered_leads, the
\* three time-windowed views and get_analytics leave the table, the mapping,
\* the audit log and the persisted table unchanged, and no operation other
\* than an import or a reload changes the mapping.
C25_ReadsArePure ==
    [][/\ last'.op \in ReadOps => UNCHANGED <<leads_df, column_mapping, audit, db>>
       /\ last'.op \notin {"load_data", "load_from_database"} =>
            UNCHANGED column_mapping]_vars

\* get_daily_tasks has returned two records of a store with a mapped status
C25_Witness ==
    /\ last.op = "get_daily_tasks"
    /\ Len(rq.list) = 2
    /\ column_mapping["status"] = "Stage"
    /\ db.stored /\ Len(audit) = 2
(* ------------------------ completed follow-ups ------------------------- *)
\* record id is in none of the three views, for any window and any date
Hidden(id) ==
    /\ id \notin get_overdue_followups(leads_df, now)
    /\ \A N \in DaysAhead : id \notin get_upcoming_followups(leads_df, now, N)
    /\ \A date \in AllDates : id \notin get_daily_tasks(leads_df, date)

\* record id is in the store, marked completed, and in none of the views
CompletedAndHidden(id) ==
    /\ has_data(leads_df) /\ id \in Index(leads_df)
    /\ RowOf(leads_df, id)["follow_up_completed"] = Bool(TRUE)
    /\ Hidden(id)

\* C26: once complete_followup(id) has run, record id is in none of
\* overdue(), upcoming(N) and daily(date), for every N and date, and stays so
\* through every later step (update_lead_status, update_lead_priority and
\* add_note on any record, the clock, other records' follow-ups) until
\* schedule_followup(id, d), an import or a reload.
C26_CompletedStaysHidden ==
    [][\A id \in Ids :
         /\ (last'.op = "complete_followup" /\ last'.id = id) =>
               IF has_data(leads_df) THEN CompletedAndHidden(id)' ELSE Hidden(id)'
         /\ (/\ CompletedAndHidden(id)
             /\ ~(last'.op = "schedule_followup" /\ last'.id = id)
             /\ last'.op \notin {"load_data", "load_from_database"}) =>
               CompletedAndHidden(id)']_vars

\* a record with a follow-up date was completed and its status was updated
\* right after
C26_Witness ==
    /\ CalledOnPresent("update_lead_status")
    /\ last.prevOp = "complete_followup" /\ last.prevId = last.id
    /\ ~isna(RowOf(leads_df, last.id)["follow_up_date"])
    /\ CompletedAndHidden(last.id)
(* --------------------------- audit truthfulness ------------------------ *)
\* the value of the field a mutation names, for record id of a frame (a
\* status or notes field the record does not have yet reads as the empty
\* value the operation creates it with)
NamedFieldValue(op, df, id) ==
    CASE op = "update_lead_status" -> Resolve(RowOf(df, id), column_mapping, "status", Null)
      [] op = "add_note" -> Resolve(RowOf(df, id), column_mapping, "notes", Str(<<>>))
      [] op = "update_lead_priority" -> RowOf(df, id)["priority"]
      [] op = "schedule_followup" -> RowOf(df, id)["follow_up_date"]
      [] op = "complete_followup" -> RowOf(df, id)["follow_up_completed"]

\* C27: the audit entry of a mutation on a record of the store carries, as
\* old value, the value its named field held right before the mutation and,
\* as new value, the value it holds right after, also for complete_followup
\* on a completed record and schedule_followup on a record that has a date.
C27_AuditEntryTruthful ==
    (Effective /\ last.gw /\ last.id \in Index(last.pre)) =>
        /\ Len(audit) = last.preAudit + 1
        /\ audit[Len(audit)].lead_row_id = last.id
        /\ audit[Len(audit)].old_value = PyStr(NamedFieldValue(last.op, last.pre, last.id))
        /\ audit[Len(audit)].new_value = PyStr(NamedFieldValue(last.op, leads_df, last.id))
====
